---- MODULE Spec2Model ----
(***************************************************************************)
(* mir.dlsite: the persistent fetch cache (api.CachedFetcher), the page    *)
(* fetcher it wraps (api.fetch_work, api._get_page) and the shelve store   *)
(* they share.  Every operation is one action; the pure parts of the code  *)
(* are operators that the actions apply.                                   *)
(***************************************************************************)
EXTENDS Naturals, Sequences, FiniteSets, TLC

\* ------------------------------------------------------------------ bounds
\* Number of operations (calls, opens, closes) of one behaviour.
MaxOps == 5

\* ------------------------------------------------------- program constants
\* api.py:49  "if e.code != 404"
NotFound == 404

\* ------------------------------------------------------------ value domains
RJCodes == {"RJ123456", "RJ999999"}
Names == {"Example Work", "Other Work"}
Makers == {"Example Circle"}
SeriesNames == {"Example Series"}

\* CachedFetcher objects constructed over the same path (api.py:133).
Instances == {1, 2}

\* soup.find(...) found no such element (it returns None).
Absent == "<absent>"
\* The series of a Work whose series was never assigned (None).
NoSeries == "<None>"

\* HTTP status codes an HTTPError can carry.
HTTPCodes == {NotFound, 500}

\* --------------------------------------------------------------- exceptions
Err(type, msg, code) == [type |-> type, msg |-> msg, code |-> code]

\* api.py:113
UnopenedError == Err("ValueError", "called unopened CachedFetcher", 0)
\* None[rjcode] at api.py:107 while self._shelf is None (api.py:103)
NotSubscriptable == Err("TypeError", "'NoneType' object is not subscriptable", 0)
\* shelve: any access of a Shelf after Shelf.close() (api.py:107 after 123)
ClosedShelfError == Err("ValueError", "invalid operation on closed shelf", 0)
\* shelve: self._shelf[rjcode] of an absent key (api.py:107)
MissingKey(rjcode) == Err("KeyError", rjcode, 0)
\* None.close() at api.py:123 while self._shelf is None
NoCloseAttribute == Err("AttributeError", "'NoneType' object has no attribute 'close'", 0)
\* the dbm write behind self._shelf[rjcode] = work_info fails (api.py:110)
StoreWriteError == Err("dbm.error", "write failed", 0)
\* urllib.error.HTTPError with e.code = code (api.py:48-49)
HTTPError(code) == Err("HTTPError", "HTTP Error", code)
\* urllib.error.URLError: a transport error that is no HTTPError (api.py:47)
URLError == Err("URLError", "urlopen error", 0)
\* a required element is missing: None.a / None.find (api.py:72, 78-80)
ParseAttributeError == Err("AttributeError", "'NoneType' object has no attribute", 0)
\* api.py:95
NoSeriesError == Err("ValueError", "no series", 0)

\* Errors a fetcher collaborator other than fetch_work may raise (the fetcher
\* is whatever callable the constructor was given, api.py:100-101).
CollaboratorErrors ==
    { Err("KeyError", "collaborator", 0), Err("TypeError", "collaborator", 0) }

\* ------------------------------------------------------------------ outcomes
\* How a Python call ends: it returns a value or raises an exception.
Return(v) == [kind |-> "return", value |-> v]
Raise(e) == [kind |-> "raise", error |-> e]
\* The fetcher was not invoked (api.py:109 not reached).
NotInvoked == [kind |-> "none"]

\* ------------------------------------------------------------- the web site
\* What the metadata-extractor finds on a fetched page: the text of each of
\* the three elements the code looks for, or Absent.
Pages ==
    [name : Names \cup {Absent}, maker : Makers \cup {Absent},
     series : SeriesNames \cup {Absent}]

\* What urllib.request.urlopen(url) does: it returns a response whose body
\* is a page, or raises HTTPError(code) or another transport error.
Responses ==
    {Return(p) : p \in Pages} \cup {Raise(HTTPError(c)) : c \in HTTPCodes}
        \cup {Raise(URLError)}

_ROOT == "http://www.dlsite.com/maniax/"
_WORK_URL == <<_ROOT, "work/=/product_id/", "{}", ".html">>
_ANNOUNCE_URL == <<_ROOT, "announce/=/product_id/", "{}", ".html">>

\* str.format with one argument: the argument takes the place of "{}".
format(template, arg) ==
    [k \in DOMAIN template |-> IF template[k] = "{}" THEN arg ELSE template[k]]

_get_work_url(rjcode) == format(_WORK_URL, rjcode)
_get_announce_url(rjcode) == format(_ANNOUNCE_URL, rjcode)

URLs(rjcode) == {_get_work_url(rjcode), _get_announce_url(rjcode)}

\* The site at the time of one fetch: the answer to each URL of a work.
Webs(rjcode) == [URLs(rjcode) -> Responses]

\* One request of the request log: the URL asked and the answer it got.
Request(url, response) == [url |-> url, response |-> response]

\* ---------------------------------------------------------------- _get_page
\* _get_page with the two URLs exchanged: the announce page is tried first.
_get_page_AnnounceFirst(rjcode, web) ==
    LET work == web[_get_work_url(rjcode)]
        announce == web[_get_announce_url(rjcode)]
        first == Request(_get_announce_url(rjcode), announce)
        second == Request(_get_work_url(rjcode), work)
    IN  IF announce.kind = "return"
        THEN [outcome |-> announce, requests |-> <<first>>]
        ELSE IF announce.error.type # "HTTPError"
        THEN [outcome |-> announce, requests |-> <<first>>]
        ELSE IF announce.error.code # NotFound
        THEN [outcome |-> announce, requests |-> <<first>>]
        ELSE [outcome |-> work, requests |-> <<first, second>>]

\* _get_page without the test of line 49: any HTTPError falls back.
_get_page_AnyHTTPError(rjcode, web) ==
    LET work == web[_get_work_url(rjcode)]
        announce == web[_get_announce_url(rjcode)]
        first == Request(_get_work_url(rjcode), work)
        second == Request(_get_announce_url(rjcode), announce)
    IN  IF work.kind = "return"
        THEN [outcome |-> work, requests |-> <<first>>]
        ELSE IF work.error.type # "HTTPError"
        THEN [outcome |-> work, requests |-> <<first>>]
        ELSE [outcome |-> announce, requests |-> <<first, second>>]

\* Returns [outcome, requests]: the page text or the exception raised, and
\* the requests made, in order.
_get_page(rjcode, web) ==
    LET work == web[_get_work_url(rjcode)]
        announce == web[_get_announce_url(rjcode)]
        first == Request(_get_work_url(rjcode), work)
        second == Request(_get_announce_url(rjcode), announce)
    IN  IF work.kind = "return"
        THEN [outcome |-> work, requests |-> <<first>>]
        ELSE IF work.error.type # "HTTPError"
        THEN [outcome |-> work, requests |-> <<first>>]
        ELSE IF work.error.code # NotFound
        THEN [outcome |-> work, requests |-> <<first>>]
        ELSE [outcome |-> announce, requests |-> <<first, second>>]

\* --------------------------------------------------------------- extraction
\* workinfo.Work(rjcode=..., name=..., maker=...): the series is unset.
Work(rjcode, name, maker) ==
    [rjcode |-> rjcode, name |-> name, maker |-> maker, series |-> NoSeries]

_get_name(soup) ==
    IF soup.name = Absent THEN Raise(ParseAttributeError) ELSE Return(soup.name)

_get_maker(soup) ==
    IF soup.maker = Absent THEN Raise(ParseAttributeError) ELSE Return(soup.maker)

_get_series(soup) ==
    IF soup.series = Absent THEN Raise(NoSeriesError) ELSE Return(soup.series)

\* --------------------------------------------------------------- fetch_work
\* fetch_work without the try statement of lines 35-40: a missing series is
\* an error like a missing name.
fetch_work_SeriesRequired(rjcode, web) ==
    LET got == _get_page(rjcode, web)
        soup == got.outcome.value
        name == _get_name(soup)
        maker == _get_maker(soup)
        series == _get_series(soup)
        work == Work(rjcode, name.value, maker.value)
    IN  IF got.outcome.kind = "raise" THEN got
        ELSE IF name.kind = "raise"
        THEN [outcome |-> name, requests |-> got.requests]
        ELSE IF maker.kind = "raise"
        THEN [outcome |-> maker, requests |-> got.requests]
        ELSE IF series.kind = "raise"
        THEN [outcome |-> series, requests |-> got.requests]
        ELSE [outcome |-> Return([work EXCEPT !.series = series.value]),
              requests |-> got.requests]

\* Returns [outcome, requests]: the Work or the exception raised, and the
\* requests _get_page made.
fetch_work(rjcode, web) ==
    LET got == _get_page(rjcode, web)
        soup == got.outcome.value
        name == _get_name(soup)
        maker == _get_maker(soup)
        series == _get_series(soup)
        work == Work(rjcode, name.value, maker.value)
    IN  IF got.outcome.kind = "raise" THEN got
        ELSE IF name.kind = "raise"
        THEN [outcome |-> name, requests |-> got.requests]
        ELSE IF maker.kind = "raise"
        THEN [outcome |-> maker, requests |-> got.requests]
        ELSE IF series.kind = "raise" /\ series.error.type = "ValueError"
        THEN [outcome |-> Return(work), requests |-> got.requests]
        ELSE IF series.kind = "raise"
        THEN [outcome |-> series, requests |-> got.requests]
        ELSE [outcome |-> Return([work EXCEPT !.series = series.value]),
              requests |-> got.requests]

\* Every way one invocation of the fetcher collaborator for rjcode can end:
\* fetch_work against any state of the site, or another collaborator raising.
FetcherOutcomes ==
    [rjcode \in RJCodes |->
        {fetch_work(rjcode, web) : web \in Webs(rjcode)}
            \cup {[outcome |-> Raise(e), requests |-> <<>>] : e \in CollaboratorErrors}]

\* The Works a fetch of rjcode can produce.
Works(rjcode) ==
    {f.outcome.value : f \in {g \in FetcherOutcomes[rjcode] : g.outcome.kind = "return"}}

\* -------------------------------------------------------------------- state
VARIABLES
    shelf,        \* per CachedFetcher: self._shelf is "None", "open" or "closed"
    store,        \* the shelve file at the cache path: rjcode -> pickled Work
    last,         \* the most recent operation and how it ended
    nops,         \* operations performed so far
    returned,     \* per rjcode: the Works successful calls have returned
    fetches,      \* per rjcode: how often the fetcher was invoked for it
    fetchFailed,  \* per rjcode: the latest fetcher invocation for it failed
    storedBy,     \* per rjcode: the instance whose call wrote the entry, or 0
    \* dlorg.main
    pc,           \* where main is: "idle", "start", "planned", "done", "raised"
    args,         \* the parsed command line: [dry_run, all]
    tree,         \* the directories under top_dir: [folders, dirs]
    meta,         \* per rjcode: what resolving its metadata gives in this run
    found,        \* what org.find_works yields
    passed,       \* the works main hands to org.calculate_path_renames
    renames,      \* the plan: a sequence of [old, new]
    events,       \* the file system operations main has made, in order
    displayed     \* the renames main has displayed

cacheVars == <<shelf, store, last, nops, returned, fetches, fetchFailed, storedBy>>
orgVars == <<pc, args, tree, meta, found, passed, renames, events, displayed>>
vars == <<cacheVars, orgVars>>

\* Python's None, as the value of an operation that returns nothing.
PyNone == [py |-> "None"]

\* ------------------------------------------------------------------- shelve
\* pickle.dumps / pickle.loads of a Work: its attributes, in order.
Pickle(work) == <<work.rjcode, work.name, work.maker, work.series>>
Unpickle(bytes) ==
    [rjcode |-> bytes[1], name |-> bytes[2], maker |-> bytes[3], series |-> bytes[4]]

\* ShelfGet that finds no key (the key is looked up under another encoding).
ShelfGet_AlwaysMissing(sh, st, rjcode) ==
    IF sh = "None" THEN Raise(NotSubscriptable)
    ELSE IF sh = "closed" THEN Raise(ClosedShelfError)
    ELSE Raise(MissingKey(rjcode))

\* self._shelf[rjcode] (api.py:107) for each value of self._shelf.
ShelfGet(sh, st, rjcode) ==
    IF sh = "None" THEN Raise(NotSubscriptable)
    ELSE IF sh = "closed" THEN Raise(ClosedShelfError)
    ELSE IF rjcode \notin DOMAIN st THEN Raise(MissingKey(rjcode))
    ELSE Return(Unpickle(st[rjcode]))

\* ShelfSet that rewrites the file with the new entry alone.
ShelfSet_Truncate(st, rjcode, work_info, writeOK) ==
    IF writeOK
    THEN [outcome |-> Return(PyNone),
          store |-> [k \in {rjcode} |-> Pickle(work_info)]]
    ELSE [outcome |-> Raise(StoreWriteError), store |-> st]

\* self._shelf[rjcode] = work_info (api.py:110) on an open shelf: the store
\* afterwards, and whether the statement raised.
ShelfSet(st, rjcode, work_info, writeOK) ==
    IF writeOK
    THEN [outcome |-> Return(PyNone),
          store |-> [k \in DOMAIN st \cup {rjcode} |->
                        IF k = rjcode THEN Pickle(work_info) ELSE st[k]]]
    ELSE [outcome |-> Raise(StoreWriteError), store |-> st]

\* ------------------------------------------------------------ CachedFetcher
\* Miss without line 110: the fetched Work is returned but never stored.
Miss_NoStore(st, rjcode, fetcher, writeOK) ==
    [outcome |-> fetcher.outcome, fetched |-> fetcher.outcome,
     requests |-> fetcher.requests, store |-> st]

\* Miss with negative caching: a failed fetch stores an empty Work.
Miss_NegativeCache(st, rjcode, fetcher, writeOK) ==
    IF fetcher.outcome.kind = "raise"
    THEN [outcome |-> fetcher.outcome, fetched |-> fetcher.outcome,
          requests |-> fetcher.requests,
          store |-> [k \in DOMAIN st \cup {rjcode} |->
                        IF k = rjcode THEN Pickle(Work(rjcode, Absent, Absent))
                        ELSE st[k]]]
    ELSE [outcome |-> fetcher.outcome, fetched |-> fetcher.outcome,
          requests |-> fetcher.requests,
          store |-> [k \in DOMAIN st \cup {rjcode} |->
                        IF k = rjcode THEN Pickle(fetcher.outcome.value) ELSE st[k]]]

\* Miss that swallows a failed write: the fetched Work is returned although
\* the store does not hold it.
Miss_IgnoreWriteError(st, rjcode, fetcher, writeOK) ==
    LET set == ShelfSet(st, rjcode, fetcher.outcome.value, writeOK)
    IN  [outcome |-> fetcher.outcome, fetched |-> fetcher.outcome,
         requests |-> fetcher.requests,
         store |-> IF fetcher.outcome.kind = "raise" THEN st ELSE set.store]

\* The KeyError handler of __call__ (api.py:109-111): invoke the fetcher,
\* store what it returned, return it.  fetcher is what self._fetcher(rjcode)
\* does this time, writeOK whether the store accepts the write.
Miss(st, rjcode, fetcher, writeOK) ==
    LET set == ShelfSet(st, rjcode, fetcher.outcome.value, writeOK)
    IN  IF fetcher.outcome.kind = "raise"
        THEN [outcome |-> fetcher.outcome, fetched |-> fetcher.outcome,
              requests |-> fetcher.requests, store |-> st]
        ELSE IF set.outcome.kind = "raise"
        THEN [outcome |-> set.outcome, fetched |-> fetcher.outcome,
              requests |-> fetcher.requests, store |-> set.store]
        ELSE [outcome |-> fetcher.outcome, fetched |-> fetcher.outcome,
              requests |-> fetcher.requests, store |-> set.store]

\* A call that ends without invoking the fetcher or touching the store.
NoFetch(st, outcome) ==
    [outcome |-> outcome, fetched |-> NotInvoked, requests |-> <<>>, store |-> st]

\* __call__ that refreshes: an entry that is present is fetched and stored
\* again.
__call__Refresh(sh, st, rjcode) ==
    LET hit == ShelfGet(sh, st, rjcode)
    IN  IF hit.kind = "return" \/ hit.error.type = "KeyError"
        THEN {Miss(st, rjcode, fetcher, writeOK) :
                fetcher \in FetcherOutcomes[rjcode], writeOK \in BOOLEAN}
        ELSE IF hit.error.type = "TypeError"
        THEN {NoFetch(st, Raise(UnopenedError))}
        ELSE {NoFetch(st, hit)}

\* __call__ without the "except TypeError" clause of lines 112-113.
__call__NoTypeErrorHandler(sh, st, rjcode) ==
    LET hit == ShelfGet(sh, st, rjcode)
    IN  IF hit.kind = "return"
        THEN {NoFetch(st, hit)}
        ELSE IF hit.error.type = "KeyError"
        THEN {Miss(st, rjcode, fetcher, writeOK) :
                fetcher \in FetcherOutcomes[rjcode], writeOK \in BOOLEAN}
        ELSE {NoFetch(st, hit)}

\* __call__ with the fetch inside the try body, so that the TypeError clause
\* also covers what the fetcher raises.
__call__FetchInsideTry(sh, st, rjcode) ==
    LET hit == ShelfGet(sh, st, rjcode)
        Handled(r) ==
            IF r.outcome.kind = "raise" /\ r.outcome.error.type = "TypeError"
            THEN [r EXCEPT !.outcome = Raise(UnopenedError)]
            ELSE r
    IN  IF hit.kind = "return"
        THEN {NoFetch(st, hit)}
        ELSE IF hit.error.type = "KeyError"
        THEN {Handled(Miss(st, rjcode, fetcher, writeOK)) :
                fetcher \in FetcherOutcomes[rjcode], writeOK \in BOOLEAN}
        ELSE IF hit.error.type = "TypeError"
        THEN {NoFetch(st, Raise(UnopenedError))}
        ELSE {NoFetch(st, hit)}

\* __call__ that invokes the fetcher before it looks the rjcode up.
__call__FetchFirst(sh, st, rjcode) ==
    LET hit == ShelfGet(sh, st, rjcode)
        Fetched(fetcher, outcome) ==
            [outcome |-> outcome, fetched |-> fetcher.outcome,
             requests |-> fetcher.requests, store |-> st]
    IN  IF hit.kind = "raise" /\ hit.error.type = "KeyError"
        THEN {Miss(st, rjcode, fetcher, writeOK) :
                fetcher \in FetcherOutcomes[rjcode], writeOK \in BOOLEAN}
        ELSE {Fetched(fetcher,
                      IF fetcher.outcome.kind = "raise" THEN fetcher.outcome
                      ELSE IF hit.kind = "return" THEN hit
                      ELSE IF hit.error.type = "TypeError" THEN Raise(UnopenedError)
                      ELSE hit) :
                fetcher \in FetcherOutcomes[rjcode]}

\* CachedFetcher.__call__(rjcode) with self._shelf = sh over the store st:
\* every way the call can end, one for each thing the fetcher and the store
\* write can do when the call reaches them.  The handlers of the try
\* statement cover the lookup of line 107 only: what is raised inside the
\* KeyError handler leaves the statement as it is.
__call__(sh, st, rjcode) ==
    LET hit == ShelfGet(sh, st, rjcode)
    IN  IF hit.kind = "return"
        THEN {NoFetch(st, hit)}
        ELSE IF hit.error.type = "KeyError"
        THEN {Miss(st, rjcode, fetcher, writeOK) :
                fetcher \in FetcherOutcomes[rjcode], writeOK \in BOOLEAN}
        ELSE IF hit.error.type = "TypeError"
        THEN {NoFetch(st, Raise(UnopenedError))}
        ELSE {NoFetch(st, hit)}

\* __enter__ that opens the file with flag 'n': always a new, empty store.
__enter__New(st) == [shelf |-> "open", store |-> <<>>]

\* CachedFetcher.__enter__: shelve.open(self._path) keeps what the file holds
\* and creates it empty if it is missing (flag 'c').
__enter__(st) == [shelf |-> "open", store |-> st]

\* CachedFetcher.close: self._shelf.close().  Shelf.close may be repeated.
close(sh) ==
    IF sh = "None"
    THEN [outcome |-> Raise(NoCloseAttribute), shelf |-> sh]
    ELSE [outcome |-> Return(PyNone), shelf |-> "closed"]

\* --------------------------------------------------------------------- Init
\* dlorg.main is not running.
OrgIdle ==
    /\ pc = "idle"
    /\ args = [dry_run |-> FALSE, all |-> FALSE]
    /\ tree = [folders |-> {}, dirs |-> {}]
    /\ meta = <<>>
    /\ found = <<>>
    /\ passed = <<>>
    /\ renames = <<>>
    /\ events = <<>>
    /\ displayed = <<>>

\* The stores a run can start from: any entries earlier runs left behind.
InitStores ==
    UNION {[S -> UNION {{Pickle(w) : w \in Works(r)} : r \in S}] : S \in SUBSET RJCodes}

StoreOK(st) == \A r \in DOMAIN st : Unpickle(st[r]) \in Works(r)

NoOp ==
    [op |-> "init", inst |-> 0, rjcode |-> "", outcome |-> Return(PyNone),
     fetched |-> NotInvoked, requests |-> <<>>]

Init ==
    /\ shelf = [i \in Instances |-> "None"]
    /\ store \in {st \in InitStores : StoreOK(st)}
    /\ last = NoOp
    /\ nops = 0
    /\ returned = [r \in RJCodes |-> {}]
    /\ fetches = [r \in RJCodes |-> 0]
    /\ fetchFailed = [r \in RJCodes |-> FALSE]
    /\ storedBy = [r \in RJCodes |-> 0]
    /\ OrgIdle

\* ------------------------------------------------------------------ actions
\* fetcher(rjcode) through instance i: the whole of __call__.
Call(i, rjcode) ==
    /\ nops < MaxOps
    /\ \E r \in __call__(shelf[i], store, rjcode) :
            /\ store' = r.store
            /\ last' = [op |-> "call", inst |-> i, rjcode |-> rjcode,
                        outcome |-> r.outcome, fetched |-> r.fetched,
                        requests |-> r.requests]
            /\ returned' =
                 IF r.outcome.kind = "return"
                 THEN [returned EXCEPT ![rjcode] = @ \cup {r.outcome.value}]
                 ELSE returned
            /\ fetches' =
                 IF r.fetched = NotInvoked
                 THEN fetches
                 ELSE [fetches EXCEPT ![rjcode] = @ + 1]
            /\ fetchFailed' =
                 IF r.fetched.kind = "none" /\ r.outcome.kind = "raise"
                 THEN fetchFailed
                 ELSE [fetchFailed EXCEPT ![rjcode] = (r.fetched.kind = "raise")]
            /\ storedBy' =
                 IF r.store # store THEN [storedBy EXCEPT ![rjcode] = i] ELSE storedBy
    /\ nops' = nops + 1
    /\ UNCHANGED <<shelf, orgVars>>

\* "with fetcher:" / fetcher.__enter__().  One process holds the store open
\* at a time (single writer), so no instance has it open already.
Enter(i) ==
    /\ nops < MaxOps
    /\ \A j \in Instances : shelf[j] # "open"
    /\ LET r == __enter__(store)
       IN  /\ shelf' = [shelf EXCEPT ![i] = r.shelf]
           /\ store' = r.store
    /\ last' = [NoOp EXCEPT !.op = "enter", !.inst = i]
    /\ nops' = nops + 1
    /\ UNCHANGED <<returned, fetches, fetchFailed, storedBy, orgVars>>

\* fetcher.close()
Close(i) ==
    /\ nops < MaxOps
    /\ LET r == close(shelf[i])
       IN  /\ shelf' = [shelf EXCEPT ![i] = r.shelf]
           /\ last' = [NoOp EXCEPT !.op = "close", !.inst = i, !.outcome = r.outcome]
    /\ nops' = nops + 1
    /\ UNCHANGED <<store, returned, fetches, fetchFailed, storedBy, orgVars>>

\* The end of a "with fetcher:" block: __exit__ calls close().  It runs only
\* after __enter__ has.
Exit(i) ==
    /\ nops < MaxOps
    /\ shelf[i] # "None"
    /\ LET r == close(shelf[i])
       IN  /\ shelf' = [shelf EXCEPT ![i] = r.shelf]
           /\ last' = [NoOp EXCEPT !.op = "exit", !.inst = i, !.outcome = r.outcome]
    /\ nops' = nops + 1
    /\ UNCHANGED <<store, returned, fetches, fetchFailed, storedBy, orgVars>>

Next ==
    \/ \E i \in Instances, rjcode \in RJCodes : Call(i, rjcode)
    \/ \E i \in Instances : Enter(i)
    \/ \E i \in Instances : Close(i)
    \/ \E i \in Instances : Exit(i)

Spec == Init /\ [][Next]_vars

\* ============================================================== dlorg.main
\* The org module (find_works, calculate_path_renames, PathRename.execute,
\* remove_empty_dirs) is described by the design document alone; main's own
\* control flow is cmd/dlorg.py.

\* ----------------------------------------------------------- paths and names
\* A directory name is a sequence of words; the name of a work folder starts
\* with its RJ code.  A path is a sequence of names, relative to top_dir.
FolderName(rjcode, text) == <<rjcode>> \o text
MiscDir == <<"misc">>

\* The RJ code a folder name is parsed to.
RJCodeOf(path) == path[Len(path)][1]

\* What the metadata of each rjcode is when it resolves.
OrgWork(rjcode) ==
    IF rjcode = "RJ123456"
    THEN Work(rjcode, "Example Work", "Example Circle")
    ELSE [Work(rjcode, "Other/Work", "Example Circle") EXCEPT
            !.series = "Example Series"]

\* A name made fit for a file name: no path separator in it.
Sanitize(text) == IF text = "Other/Work" THEN "Other_Work" ELSE text

\* The canonical path of a work: "RJ111111 [Bar] Foo", below a directory
\* named after the series when the work has one.
work_path(work) ==
    LET folder == FolderName(work.rjcode,
                     <<"[", Sanitize(work.maker), "]", Sanitize(work.name)>>)
    IN  IF work.series = NoSeries THEN <<folder>>
        ELSE <<<<Sanitize(work.series)>>, folder>>

\* The work folders a tree may hold when main starts, in the order
\* find_works yields them.
CandidateWorks ==
    << <<FolderName("RJ123456", <<>>)>>,
       work_path(OrgWork("RJ123456")),
       <<MiscDir, FolderName("RJ123456", <<"old">>)>>,
       <<FolderName("RJ999999", <<>>)>>,
       <<MiscDir, FolderName("RJ999999", <<>>)>>,
       work_path(OrgWork("RJ999999")) >>

Range(seq) == {seq[k] : k \in DOMAIN seq}

\* The directories above a path.
Parents(path) == {SubSeq(path, 1, k) : k \in 1..(Len(path) - 1)}

\* The trees main may start on: any of the candidate work folders, the
\* directories above them, and possibly an empty directory.
InitTrees ==
    {[folders |-> F, dirs |-> UNION {Parents(f) : f \in F} \cup E] :
        F \in SUBSET Range(CandidateWorks), E \in {{}, {<<MiscDir>>}}}

\* ------------------------------------------------------------ org.find_works
\* The work folders under top_dir, each once.
find_works(t) ==
    SelectSeq(CandidateWorks, LAMBDA path : path \in t.folders)

\* ------------------------------------------------------ main, lines 37 - 38
\* SelectWorks that keeps paths of up to two parts.
SelectWorks_TwoParts(works, all) ==
    IF ~all THEN SelectSeq(works, LAMBDA path : Len(path) <= 2) ELSE works

\* "if not args.all: works = (p for p in works if len(p.parts) == 1)"
SelectWorks(works, all) ==
    IF ~all THEN SelectSeq(works, LAMBDA path : Len(path) = 1) ELSE works

\* ----------------------------------------------- org.calculate_path_renames
\* The n-th choice of a destination: the path itself, then the path with
\* "(2)", "(3)", ... added to its last name.
Ordinals == <<"(1)", "(2)", "(3)", "(4)", "(5)", "(6)", "(7)", "(8)">>
Disambiguate(path, n) ==
    IF n = 1 THEN path
    ELSE [path EXCEPT ![Len(path)] = Append(@, Ordinals[n])]

\* The first choice of a destination that is not taken.
FirstFree(path, taken) ==
    Disambiguate(path,
        CHOOSE n \in 1..(Cardinality(taken) + 1) :
            /\ Disambiguate(path, n) \notin taken
            /\ \A m \in 1..(n - 1) : Disambiguate(path, m) \in taken)

Resolves(path, md) == md[RJCodeOf(path)].kind = "return"
Wanted(path, md) == work_path(md[RJCodeOf(path)].value)

RECURSIVE PlanFrom(_, _, _, _)
PlanFrom(works, md, k, taken) ==
    IF k > Len(works) THEN <<>>
    ELSE IF ~Resolves(works[k], md) \/ Wanted(works[k], md) = works[k]
    THEN PlanFrom(works, md, k + 1, taken)
    ELSE LET new == FirstFree(Wanted(works[k], md), taken)
         IN  <<[old |-> works[k], new |-> new]>>
                \o PlanFrom(works, md, k + 1, taken \cup {new})

\* The plan without step 3: every work moves to its canonical path, taken
\* or not.
calculate_path_renames_Canonical(works, md) ==
    LET moving == SelectSeq(works,
            LAMBDA path : Resolves(path, md) /\ Wanted(path, md) # path)
    IN  [k \in DOMAIN moving |-> [old |-> moving[k], new |-> Wanted(moving[k], md)]]

\* The plan for the works given: a work whose metadata does not resolve is
\* left out, a work that is where it belongs needs no entry and keeps its
\* path, and every other work, in the order given, moves to its canonical
\* path or, if that is taken, to the first free variant of it.
calculate_path_renames(works, md) ==
    PlanFrom(works, md, 1,
        {works[k] : k \in {j \in DOMAIN works :
            Resolves(works[j], md) /\ Wanted(works[j], md) = works[j]}})

\* -------------------------------------------------------- PathRename.execute
\* os.rename refused: no permission, or the destination exists.
RenameError == Err("OSError", "rename failed", 0)

\* r.execute(top_dir): make the directories above the destination, then
\* move the folder.  permitted is whether the file system allows the move.
execute(t, r, permitted) ==
    LET made == [t EXCEPT !.dirs = @ \cup Parents(r.new)]
    IN  IF ~permitted \/ r.old \notin t.folders
              \/ r.new \in made.folders \cup made.dirs
        THEN [outcome |-> Raise(RenameError), tree |-> made]
        ELSE [outcome |-> Return(PyNone),
              tree |-> [made EXCEPT !.folders = (@ \ {r.old}) \cup {r.new}]]

\* ------------------------------------------------------ org.remove_empty_dirs
\* Bottom-up removal of empty directories: what remains are the work folders
\* and the directories above one.
remove_empty_dirs(t) ==
    [t EXCEPT !.dirs = {d \in @ : \E f \in t.folders : d \in Parents(f)}]

\* --------------------------------------------------------------- dlorg.main
\* main that ignores --dry-run.
TakesDryRun_Never(a) == FALSE

\* "if args.dry_run:" (line 41)
TakesDryRun(a) == a.dry_run

\* The body of the dry-run branch (line 42) is the expression "...": what it
\* displays of the plan.
DryRunBody(plan) == <<>>

\* Line 46 indented into the loop body: remove_empty_dirs after the first
\* entry.
NextStep_CleanupInLoop(done, plan) ==
    IF done = 0 /\ Len(plan) > 0 THEN "rename" ELSE "cleanup"

\* Lines 44 - 46 after done entries of the plan were executed: the loop
\* takes the next entry, and main goes on to remove_empty_dirs when the
\* loop has none left.
NextStep(done, plan) == IF done < Len(plan) THEN "rename" ELSE "cleanup"

RenameEvent(r, ok) == [op |-> "rename", old |-> r.old, new |-> r.new, ok |-> ok]
CleanupEvent == [op |-> "cleanup", old |-> <<>>, new |-> <<>>, ok |-> TRUE]

\* What resolving an rjcode through the cached fetcher can give in a run.
Resolutions ==
    [RJCodes -> {Return(OrgWork(r)) : r \in RJCodes} \cup {Raise(HTTPError(NotFound))}]

InitOrg ==
    /\ shelf = [i \in Instances |-> "None"]
    /\ store = <<>>
    /\ last = NoOp
    /\ nops = 0
    /\ returned = [r \in RJCodes |-> {}]
    /\ fetches = [r \in RJCodes |-> 0]
    /\ fetchFailed = [r \in RJCodes |-> FALSE]
    /\ storedBy = [r \in RJCodes |-> 0]
    /\ pc = "start"
    /\ args \in [dry_run : BOOLEAN, all : BOOLEAN]
    /\ tree \in InitTrees
    /\ meta \in {md \in Resolutions :
                    \A r \in RJCodes : md[r].kind = "return" => md[r].value.rjcode = r}
    /\ found = <<>>
    /\ passed = <<>>
    /\ renames = <<>>
    /\ events = <<>>
    /\ displayed = <<>>

\* Lines 36 - 40: discover the works, keep the top-level ones unless --all,
\* compute the plan.
MainPlan ==
    /\ pc = "start"
    /\ found' = find_works(tree)
    /\ passed' = SelectWorks(found', args.all)
    /\ renames' = calculate_path_renames(passed', meta)
    /\ pc' = "planned"
    /\ UNCHANGED <<cacheVars, args, tree, meta, events, displayed>>

\* Lines 41 - 42: the dry-run branch.
MainDryRun ==
    /\ pc = "planned"
    /\ TakesDryRun(args)
    /\ displayed' = displayed \o DryRunBody(renames)
    /\ pc' = "done"
    /\ UNCHANGED <<cacheVars, args, tree, meta, found, passed, renames, events>>

\* Lines 44 - 45: one turn of the loop.  Nothing in main catches what
\* r.execute raises: an exception ends main.
MainRename ==
    /\ pc = "planned"
    /\ ~TakesDryRun(args)
    /\ Len(events) < Len(renames)
    /\ NextStep(Len(events), renames) = "rename"
    /\ \E permitted \in BOOLEAN :
        LET r == renames[Len(events) + 1]
            x == execute(tree, r, permitted)
        IN  /\ tree' = x.tree
            /\ events' = Append(events, RenameEvent(r, x.outcome.kind = "return"))
            /\ pc' = IF x.outcome.kind = "raise" THEN "raised" ELSE pc
    /\ UNCHANGED <<cacheVars, args, meta, found, passed, renames, displayed>>

\* Line 46: org.remove_empty_dirs(args.top_dir), after the loop.
MainCleanup ==
    /\ pc = "planned"
    /\ ~TakesDryRun(args)
    /\ NextStep(Len(events), renames) = "cleanup"
    /\ tree' = remove_empty_dirs(tree)
    /\ events' = Append(events, CleanupEvent)
    /\ pc' = "done"
    /\ UNCHANGED <<cacheVars, args, meta, found, passed, renames, displayed>>

NextOrg ==
    \/ MainPlan
    \/ MainDryRun
    \/ MainRename
    \/ MainCleanup

SpecOrg == InitOrg /\ [][NextOrg]_vars

\* --------------------------------------------------------------- properties
\* The step is a call of a CachedFetcher.
CallStep == nops' # nops /\ last'.op = "call"

\* C1: once one call for an rjcode has succeeded, the fetcher is never
\* invoked for it again, and every later call through an open CachedFetcher
\* returns the identical value.
C1_FetchedAtMostOnce ==
    [][\A r \in RJCodes :
        (CallStep /\ last'.rjcode = r /\ returned[r] # {})
            => /\ last'.fetched = NotInvoked
               /\ fetches'[r] = fetches[r]
               /\ shelf[last'.inst] = "open"
                    => \A w \in returned[r] : last'.outcome = Return(w)]_vars

\* A call whose fetch was stored has been followed by a call that returned
\* the value without a fetch.
C1_Witness ==
    \E r \in RJCodes :
        /\ storedBy[r] # 0 /\ fetches[r] = 1
        /\ last.op = "call" /\ last.rjcode = r
        /\ last.fetched = NotInvoked /\ last.outcome.kind = "return"

\* C2: a call whose fetcher fails leaves the store exactly as it was, and
\* the next call for that rjcode through an open CachedFetcher invokes the
\* fetcher again.
C2_NoNegativeCaching ==
    [][CallStep =>
        /\ last'.fetched.kind = "raise" => store' = store
        /\ (fetchFailed[last'.rjcode] /\ shelf[last'.inst] = "open")
             => /\ last'.fetched # NotInvoked
                /\ fetches'[last'.rjcode] = fetches[last'.rjcode] + 1]_vars

\* A fetch failed, and the call after it fetched again and failed again.
C2_Witness ==
    \E r \in RJCodes :
        /\ last.op = "call" /\ last.rjcode = r
        /\ last.fetched.kind = "raise" /\ fetches[r] = 2
        /\ fetchFailed[r] /\ r \notin DOMAIN store

\* C3: a call for an rjcode the opened store holds returns the stored value
\* and does not invoke the fetcher.
C3_HitDoesNotFetch ==
    [][(CallStep /\ shelf[last'.inst] = "open" /\ last'.rjcode \in DOMAIN store)
        => /\ last'.outcome = Return(Unpickle(store[last'.rjcode]))
           /\ last'.fetched = NotInvoked
           /\ fetches' = fetches]_vars

\* A hit on an entry that no call of this run stored.
C3_Witness ==
    /\ last.op = "call" /\ last.outcome.kind = "return"
    /\ last.fetched = NotInvoked
    /\ storedBy[last.rjcode] = 0 /\ fetches[last.rjcode] = 0

\* C4: an entry of the store is never changed and never removed, whatever
\* is called, opened or closed.
C4_EntriesAreFinal ==
    [][\A r \in DOMAIN store : r \in DOMAIN store' /\ store'[r] = store[r]]_vars

\* An entry a call stored has survived a close, a reopening and a hit.
C4_Witness ==
    \E r \in RJCodes :
        /\ storedBy[r] # 0 /\ r \in DOMAIN store
        /\ last.op = "call" /\ last.rjcode = r /\ last.inst # storedBy[r]
        /\ last.outcome = Return(Unpickle(store[r]))

\* C5: what a call through one CachedFetcher stored is, once that one is
\* closed, returned without a fetch by a call through another CachedFetcher
\* opened on the same store.
C5_PersistsAcrossInstances ==
    [][\A r \in RJCodes :
        (/\ CallStep /\ last'.rjcode = r
         /\ storedBy[r] \notin {0, last'.inst}
         /\ shelf[storedBy[r]] = "closed"
         /\ shelf[last'.inst] = "open")
            => /\ last'.fetched = NotInvoked
               /\ fetches'[r] = fetches[r]
               /\ last'.outcome.kind = "return"
               /\ returned[r] = {last'.outcome.value}]_vars

\* Instance 1 fetched and stored, was closed, and instance 2 returned it.
C5_Witness ==
    \E r \in RJCodes :
        /\ storedBy[r] = 1 /\ shelf[1] = "closed" /\ shelf[2] = "open"
        /\ last.op = "call" /\ last.rjcode = r /\ last.inst = 2
        /\ last.fetched = NotInvoked /\ last.outcome.kind = "return"
        /\ fetches[r] = 1

\* C6: a call of a CachedFetcher that was never opened raises
\* ValueError('called unopened CachedFetcher'), whatever the rjcode.
C6_UnopenedRaises ==
    (last.op = "call" /\ shelf[last.inst] = "None")
        => last.outcome = Raise(UnopenedError)

\* A never-opened CachedFetcher was called for an rjcode the store holds.
C6_Witness ==
    /\ last.op = "call" /\ shelf[last.inst] = "None"
    /\ last.rjcode \in DOMAIN store
    /\ last.outcome = Raise(UnopenedError)
\* C7: a call of a CachedFetcher that was opened and then closed raises the
\* same error as a call of one that was never opened,
\* ValueError('called unopened CachedFetcher'), whether or not the store
\* holds the rjcode.
C7_ClosedRaisesUnopened ==
    (last.op = "call" /\ shelf[last.inst] = "closed")
        => last.outcome = Raise(UnopenedError)

\* C8: whatever the fetcher raises during a miss, a KeyError or TypeError
\* included, is what the call raises: it is not swallowed and not turned
\* into the unopened-cache error.
C8_FetcherErrorUnchanged ==
    (last.op = "call" /\ last.fetched.kind = "raise")
        => last.outcome = last.fetched

\* The fetcher raised a TypeError and the call raised that TypeError.
C8_Witness ==
    /\ last.op = "call"
    /\ last.fetched.kind = "raise" /\ last.fetched.error.type = "TypeError"
    /\ last.outcome = last.fetched

\* The Work whose attributes are the elements of a page.
FromPage(rjcode, page) ==
    [rjcode |-> rjcode, name |-> page.name, maker |-> page.maker,
     series |-> IF page.series = Absent THEN NoSeries ELSE page.series]

\* C9: the announce URL is requested only as the second request, after the
\* work URL was requested and answered not-found; a work URL that succeeds
\* is the only request; and when the work URL is not-found the announce URL
\* is requested and the Work fetched is the one its page describes.
C9_AnnounceOnlyAfterNotFound ==
    last.op = "call" =>
        LET rq == last.requests
            workURL == _get_work_url(last.rjcode)
            announceURL == _get_announce_url(last.rjcode)
        IN  /\ \A k \in DOMAIN rq :
                rq[k].url = announceURL
                    => /\ k = 2
                       /\ rq[1].url = workURL
                       /\ rq[1].response = Raise(HTTPError(NotFound))
            /\ (Len(rq) >= 1 /\ rq[1].response.kind = "return") => Len(rq) = 1
            /\ (Len(rq) >= 1 /\ rq[1].response = Raise(HTTPError(NotFound)))
                    => /\ Len(rq) = 2
                       /\ rq[2].url = announceURL
                       /\ last.fetched.kind = "return"
                            => /\ rq[2].response.kind = "return"
                               /\ last.fetched.value =
                                    FromPage(last.rjcode, rq[2].response.value)

\* The work URL was not-found, the announce URL answered with a page that
\* names a series, and the Work of that page was returned.
C9_Witness ==
    /\ last.op = "call" /\ Len(last.requests) = 2
    /\ last.requests[1].response = Raise(HTTPError(NotFound))
    /\ last.requests[2].response.kind = "return"
    /\ last.outcome.kind = "return"
    /\ last.outcome.value.series \in SeriesNames
    /\ last.outcome.value = FromPage(last.rjcode, last.requests[2].response.value)

\* C10: an error of the work URL other than not-found ends the fetch with
\* that error and the announce URL is not requested; an error of the
\* announce URL ends the fetch with that error.  In both cases the call
\* raises it.
C10_TransportErrorsAreFatal ==
    (last.op = "call" /\ Len(last.requests) >= 1) =>
        LET rq == last.requests
        IN  /\ (rq[1].response.kind = "raise"
                    /\ rq[1].response # Raise(HTTPError(NotFound)))
                => /\ Len(rq) = 1
                   /\ last.fetched = rq[1].response
                   /\ last.outcome = rq[1].response
            /\ (Len(rq) = 2 /\ rq[2].response.kind = "raise")
                => /\ last.fetched = rq[2].response
                   /\ last.outcome = rq[2].response

\* The work URL answered with an HTTPError other than 404, which the call
\* raised after that one request.
C10_Witness ==
    /\ last.op = "call" /\ Len(last.requests) = 1
    /\ last.requests[1].response.kind = "raise"
    /\ last.requests[1].response.error.type = "HTTPError"
    /\ last.requests[1].response.error.code # NotFound
    /\ last.outcome = last.requests[1].response
\* C16: a call that fetched a Work returns it only with the store holding
\* it under that rjcode; when the store write fails the call raises the
\* store's error and returns nothing.
C16_StoredBeforeReturned ==
    (last.op = "call" /\ last.fetched.kind = "return") =>
        /\ last.outcome.kind = "return"
            => /\ last.outcome = last.fetched
               /\ last.rjcode \in DOMAIN store
               /\ Unpickle(store[last.rjcode]) = last.outcome.value
        /\ last.rjcode \notin DOMAIN store
            => last.outcome = Raise(StoreWriteError)

\* A fetch succeeded, the write of its Work failed and the call raised.
C16_Witness ==
    /\ last.op = "call" /\ last.fetched.kind = "return"
    /\ last.rjcode \notin DOMAIN store
    /\ last.outcome = Raise(StoreWriteError)

\* The page a fetch parsed: the body of the last response, when it has one.
ParsedPage(rq) == rq[Len(rq)].response.value
HasPage(rq) == Len(rq) >= 1 /\ rq[Len(rq)].response.kind = "return"

\* C18: a page with a name and a maker makes fetch_work return a Work
\* whether or not the page names a series, and without a series when it
\* names none; a page without a name or without a maker makes it raise.
C18_SeriesIsOptional ==
    (last.op = "call" /\ HasPage(last.requests)) =>
        LET page == ParsedPage(last.requests)
        IN  /\ (page.name # Absent /\ page.maker # Absent)
                => /\ last.fetched.kind = "return"
                   /\ page.series = Absent => last.fetched.value.series = NoSeries
            /\ (page.name = Absent \/ page.maker = Absent)
                => last.fetched.kind = "raise"

\* A page with a name and a maker and no series was fetched, and the call
\* returned a Work without a series.
C18_Witness ==
    /\ last.op = "call" /\ HasPage(last.requests)
    /\ ParsedPage(last.requests).name # Absent
    /\ ParsedPage(last.requests).maker # Absent
    /\ ParsedPage(last.requests).series = Absent
    /\ last.outcome.kind = "return"
    /\ last.outcome.value.series = NoSeries

\* C19: a call for one rjcode leaves the entries of every other rjcode as
\* they were: none added, none removed, none changed.
C19_OtherEntriesUntouched ==
    [][CallStep =>
        \A r \in RJCodes \ {last'.rjcode} :
            /\ r \in DOMAIN store <=> r \in DOMAIN store'
            /\ r \in DOMAIN store => store'[r] = store[r]]_vars

\* A call stored a fetched Work while the store held another rjcode.
C19_Witness ==
    \E r \in RJCodes :
        /\ last.op = "call" /\ last.rjcode # r
        /\ last.fetched.kind = "return" /\ last.outcome.kind = "return"
        /\ storedBy[last.rjcode] # 0
        /\ r \in DOMAIN store

\* C20: a call of a CachedFetcher that is not open, never opened or closed,
\* invokes no fetcher and makes no request.
C20_NotOpenNoFetch ==
    [][(CallStep /\ shelf[last'.inst] # "open")
        => /\ last'.fetched = NotInvoked
           /\ last'.requests = <<>>
           /\ fetches' = fetches]_vars

\* A closed CachedFetcher was called for an rjcode the store does not hold.
C20_Witness ==
    /\ last.op = "call" /\ shelf[last.inst] = "closed"
    /\ last.rjcode \notin DOMAIN store
    /\ last.fetched = NotInvoked
\* C11: with --dry-run main changes nothing in the file system: it executes
\* no rename and runs no removal of empty directories.
C11_DryRunMutatesNothing ==
    [][args.dry_run => (tree' = tree /\ events' = events)]_vars

\* A dry run has ended with a plan that has entries.
C11_Witness ==
    /\ pc = "done" /\ args.dry_run /\ renames # <<>>
    /\ events = <<>>

\* C12: with --dry-run the plan is computed and every rename of it is
\* displayed.
C12_DryRunDisplaysPlan ==
    (pc = "done" /\ args.dry_run)
        => /\ Len(displayed) = Len(renames)
           /\ \A k \in DOMAIN renames : displayed[k] = renames[k]

\* The entries of the plan main has tried to execute.
Attempted == SelectSeq(events, LAMBDA e : e.op = "rename")

\* C13: a rename that fails does not end the batch: when main has ended,
\* every entry of the plan has been attempted.
C13_BatchContinues ==
    (pc \in {"done", "raised"} /\ ~args.dry_run)
        => Len(Attempted) = Len(renames)

\* The works given to the planner whose metadata resolves, those of them
\* that are where they belong, and the entries of the plan for a work.
Resolvable == {path \in Range(passed) : Resolves(path, meta)}
InPlace == {path \in Resolvable : Wanted(path, meta) = path}
EntriesOf(path) == {k \in DOMAIN renames : renames[k].old = path}

\* No two entries of the plan share a destination, and none has the path of
\* a work that stays in place.
DestinationsDistinct ==
    /\ \A j, k \in DOMAIN renames : j # k => renames[j].new # renames[k].new
    /\ \A k \in DOMAIN renames : renames[k].new \notin InPlace

\* C14 as stated: the plan has exactly one destination for every work with
\* resolvable metadata, and no two sources share a destination.
C14_OneEntryPerWork ==
    pc # "start" =>
        /\ \A path \in Resolvable : Cardinality(EntriesOf(path)) = 1
        /\ DestinationsDistinct

\* C14, amended: the plan has exactly one destination for every work with
\* resolvable metadata that is not at its canonical path already and none
\* for a work that is, and no two sources share a destination.
C14_OneEntryPerMovedWork ==
    pc # "start" =>
        /\ \A path \in Resolvable \ InPlace : Cardinality(EntriesOf(path)) = 1
        /\ \A path \in InPlace : EntriesOf(path) = {}
        /\ \A k \in DOMAIN renames : renames[k].old \in Resolvable
        /\ DestinationsDistinct

\* Two folders of one work are moved, to different destinations, while a
\* third folder of it is at the canonical path.
C14_Witness ==
    /\ pc # "start"
    /\ \E j, k \in DOMAIN renames :
        /\ j # k
        /\ RJCodeOf(renames[j].old) = RJCodeOf(renames[k].old)
        /\ \E path \in InPlace : RJCodeOf(path) = RJCodeOf(renames[j].old)

\* C15: the renames are made in the order of the plan, and the removal of
\* empty directories comes after every rename of the plan has been applied,
\* never between two renames.
C15_CleanupAfterAllRenames ==
    \A j \in DOMAIN events :
        /\ events[j].op = "rename"
            => /\ j <= Len(renames)
               /\ events[j].old = renames[j].old
               /\ events[j].new = renames[j].new
        /\ events[j].op = "cleanup"
            => /\ j = Len(renames) + 1
               /\ \A k \in 1..(j - 1) : events[k].op = "rename" /\ events[k].ok

\* A plan of two entries or more was executed and the cleanup followed.
C15_Witness ==
    /\ pc = "done" /\ ~args.dry_run /\ Len(renames) >= 2
    /\ events[Len(events)] = CleanupEvent

\* C17: without --all the planner is given exactly the discovered works
\* whose path has one part, with --all every discovered work.
C17_TopLevelUnlessAll ==
    pc # "start" =>
        /\ Range(passed) = {path \in Range(found) : args.all \/ Len(path) = 1}
        /\ Len(passed) = Cardinality(Range(passed))
        /\ args.all => passed = found

\* Without --all, works of one part and of two parts were discovered.
C17_Witness ==
    /\ pc # "start" /\ ~args.all
    /\ \E path \in Range(found) : Len(path) = 2
    /\ passed # <<>>
    /\ \A path \in Range(passed) : Len(path) = 1

====
